---- MODULE Spec2Model ----
(***************************************************************************)
(* Model of the Smart Data Health Center (improved_data_health_center.py): *)
(* the quality scorer, the recommendation generator, the fix applier with  *)
(* its audit log, and the four-step wizard around them.                    *)
(*                                                                         *)
(* A dataset is a pandas DataFrame: a row count and a sequence of columns, *)
(* each with a name, a dtype and one cell per row.  Cells are tagged       *)
(* values; numbers are exact fractions n/d so that a column mean is exact. *)
(* Scores are kept in tenths of a point (round(score, 1) * 10), with NaN   *)
(* as a value of its own.                                                  *)
(***************************************************************************)
EXTENDS Integers, Sequences, FiniteSets, TLC

(***************************************************************************)
(* Bounds of the model.                                                    *)
(***************************************************************************)
\* largest number of rows of a dataset under test
MaxRows == 3
\* longest audit log the wizard specification explores
MaxLog == 2

(***************************************************************************)
(* Cell values.  k is the Python type of the cell as dataset[col].apply    *)
(* (type) sees it: "float", "str", "Timestamp", "datetime", "NaTType".  v  *)
(* is the value: <<n, d>> for the float n / d and <<>> for the float NaN,  *)
(* the text of a str, the day of a Timestamp as text, the text of a        *)
(* datetime object that carries its own UTC offset.                        *)
(***************************************************************************)
NaN == [k |-> "float", v |-> <<>>]
NaT == [k |-> "NaTType", v |-> <<>>]
Num(a, b) == [k |-> "float", v |-> <<a, b>>]
Str(t) == [k |-> "str", v |-> t]
Ts(t) == [k |-> "Timestamp", v |-> t]
Aware(t) == [k |-> "datetime", v |-> t]

\* pandas isnull() of one cell
isnull(v) == v = NaN \/ v = NaT

(***************************************************************************)
(* Strings of the model and what str.strip, the whitespace regex,          *)
(* pd.to_numeric and pd.to_datetime make of them.                          *)
(***************************************************************************)
\* text with a leading blank
SpText == " x"
\* a string pd.to_numeric parses
NumText == "7"
\* a string pd.to_datetime parses; also strftime("%Y-%m-%d") of that day
DateText == "2020-01-05"
\* strftime("%Y-%m-%d") of a number read as nanoseconds since the epoch
EpochText == "1970-01-01"
\* two timestamps of that day written with different UTC offsets
EastText == "2020-01-05T00:00+01:00"
WestText == "2020-01-05T00:00-05:00"
OffsetTexts == {EastText, WestText}

\* str.rstrip(): only the trailing whitespace goes
rstrip(t) == t

\* str.strip()
strip(t) == IF t = SpText THEN "x" ELSE t

\* re.search(r'^\s|\s$', t)
has_edge_space(t) == t = SpText

\* the order Series.mode() sorts strings in (code points)
StrRank(t) ==
    CASE t = SpText -> 1
      [] t = EpochText -> 2
      [] t = DateText -> 3
      [] t = EastText -> 4
      [] t = WestText -> 5
      [] t = NumText -> 6
      [] t = "Missing" -> 7
      [] t = "nan" -> 8
      [] t = "x" -> 9
      [] OTHER -> 10

\* astype(str) of one cell
astype_str(v) ==
    CASE v.k = "str" -> v.v
      [] v.k = "Timestamp" -> v.v
      [] v.k = "datetime" -> v.v
      [] v.k = "NaTType" -> "NaT"
      [] v = NaN -> "nan"
      [] OTHER -> "num"

(***************************************************************************)
(* Datasets.                                                               *)
(***************************************************************************)
Column(name, dtype, cells) == [name |-> name, dtype |-> dtype, cells |-> cells]
DataFrame(nrows, cols) == [nrows |-> nrows, cols |-> cols]

\* len(dataset), len(dataset.columns)
len(dataset) == dataset.nrows
ncols(dataset) == Len(dataset.cols)

\* "date" in col.lower() or "time" in col.lower()
is_date_name(name) == name \in {"Date", "time"}

\* pd.api.types.is_numeric_dtype
is_numeric_dtype(col) == col.dtype = "float64"

\* the cells a column of each dtype can hold when it is loaded from a file
CellsOf(name, dtype) ==
    CASE dtype = "float64" -> {NaN, Num(1, 1), Num(2, 1)}
      [] dtype = "datetime64[ns]" -> {NaT, Ts(DateText)}
      [] OTHER -> {NaN, Str(SpText), Str(IF is_date_name(name) THEN DateText ELSE NumText)}

\* the cells of a text column of timestamps with UTC offsets
OffsetCells == {NaN, Str(EastText), Str(WestText)}

\* the dtypes a column of that name is loaded with
DtypesOf(name) ==
    IF is_date_name(name) THEN {"object", "datetime64[ns]"}
    ELSE {"float64", "object"}

\* the column names of the datasets under test
ColumnNames == {"qty", "Date"}

ColumnsNamed(name, r) ==
    UNION { { Column(name, dt, cells) : cells \in [1..r -> CellsOf(name, dt)] } :
            dt \in DtypesOf(name) }
    \cup IF is_date_name(name)
         THEN { Column(name, "object", cells) : cells \in [1..r -> OffsetCells] }
         ELSE {}

\* every dataset of r rows with no column, one of the columns, or both
DatasetsOfRows(r) ==
    { DataFrame(r, <<>>) }
    \cup { DataFrame(r, <<c>>) : c \in UNION { ColumnsNamed(nm, r) : nm \in ColumnNames } }
    \cup { DataFrame(r, <<c1, c2>>) : c1 \in ColumnsNamed("qty", r), c2 \in ColumnsNamed("Date", r) }

\* every dataset of at most max_rows rows
Datasets(max_rows) == UNION { DatasetsOfRows(r) : r \in 0..max_rows }

(***************************************************************************)
(* pandas primitives used by the scorer, the generator and the applier.    *)
(***************************************************************************)
\* dataset[col].isnull().sum()
null_count(col) == Cardinality({ i \in DOMAIN col.cells : isnull(col.cells[i]) })

\* dataset.isnull().sum().sum(), summed column by column
RECURSIVE null_sum(_)
null_sum(cols) ==
    IF cols = <<>> THEN 0 ELSE null_count(Head(cols)) + null_sum(Tail(cols))

\* rows i and j hold equal values in every column (NaN equals NaN here)
same_row(dataset, i, j) ==
    \A c \in DOMAIN dataset.cols : dataset.cols[c].cells[i] = dataset.cols[c].cells[j]

\* dataset.duplicated(): the rows that repeat an earlier row; an empty frame
\* (no row or no column) has none
duplicated(dataset) ==
    IF ncols(dataset) = 0 THEN {}
    ELSE { i \in 1..len(dataset) : \E j \in 1..(i - 1) : same_row(dataset, j, i) }

\* dataset[col].apply(type).unique()
cell_types(col) == { col.cells[i].k : i \in DOMAIN col.cells }

\* sum(len(dataset[col].apply(type).unique()) == 1 for col in dataset.columns)
consistent_count(dataset) ==
    Cardinality({ c \in DOMAIN dataset.cols : Cardinality(cell_types(dataset.cols[c])) = 1 })

(***************************************************************************)
(* calculate_quality_score.  A score is [nan, tenths]: NaN, or the number  *)
(* tenths / 10.                                                            *)
(***************************************************************************)
ScoreNaN == [nan |-> TRUE, tenths |-> 0]
Score(t) == [nan |-> FALSE, tenths |-> t]

\* round(x / y) for x >= 0, y > 0, halves to the even neighbour as Python's round
round_div(x, y) ==
    LET q == x \div y
        r == x % y
    IN  IF 2 * r > y \/ (2 * r = y /\ q % 2 = 1) THEN q + 1 ELSE q

\* weights of the three metrics, in thousandths of the score's tenths
W_missing == 400
W_duplicate == 300
W_type == 300

\* sum(metrics[m] * weights[m] for m in metrics) * 100, rounded to one decimal
weighted_score(dataset, w_missing, w_duplicate, w_type) ==
    LET R == len(dataset)
        C == ncols(dataset)
        \* dataset.isnull().mean().mean(): the mean of no value is NaN
        missing_is_nan == R = 0 \/ C = 0
        \* each metric as a fraction over R * C
        missing_data == R * C - null_sum(dataset.cols)
        duplicate_rows == (R - Cardinality(duplicated(dataset))) * C
        type_consistency == consistent_count(dataset) * R
    IN  IF missing_is_nan THEN ScoreNaN
        ELSE Score(round_div(w_missing * missing_data + w_duplicate * duplicate_rows
                             + w_type * type_consistency, R * C))

\* the weights of the first two metrics exchanged
calculate_quality_score_swapped(dataset) ==
    weighted_score(dataset, W_duplicate, W_missing, W_type)

calculate_quality_score(dataset) ==
    weighted_score(dataset, W_missing, W_duplicate, W_type)

(***************************************************************************)
(* Recommendations.  A description or a log message is its text, the names *)
(* it mentions and the count it mentions.  "column" is the list of column  *)
(* names (the source joins them with ", "); a key that params does not     *)
(* hold is "" or <<>>.                                                     *)
(***************************************************************************)
Text(text, args, count) == [text |-> text, args |-> args, count |-> count]

Params(column, strategy, columns) ==
    [column |-> column, strategy |-> strategy, columns |-> columns]

Rec(issue, column, severity, description, action, params, auto_fix) ==
    [issue |-> issue, column |-> column, severity |-> severity,
     description |-> description, action |-> action, params |-> params,
     auto_fix |-> auto_fix]

\* [f(s[i]) for i in range(len(s))]
MapSeq(s, f(_)) == [i \in 1..Len(s) |-> f(s[i])]

\* "High" if pct > 0.3 else "Medium" if pct > 0.1 else "Low", pct = nulls / nrows
missing_severity(nulls, nrows) ==
    IF 10 * nulls > 3 * nrows THEN "High"
    ELSE IF 10 * nulls > nrows THEN "Medium" ELSE "Low"

missing_rec(col, nrows) ==
    LET severity == missing_severity(null_count(col), nrows)
        strategy == IF is_numeric_dtype(col) THEN "mean" ELSE "mode"
        description ==
            IF is_numeric_dtype(col)
            THEN Text("Fill missing values with column mean/median", <<col.name>>, 0)
            ELSE Text("Fill missing values with most common value", <<col.name>>, 0)
    IN  Rec("Missing Values", <<col.name>>, severity, description, "fill_missing",
            Params(col.name, strategy, <<>>), severity # "High")

duplicate_rec(dup_count, nrows) ==
    Rec("Duplicate Rows", <<"multiple">>,
        IF 10 * dup_count < nrows THEN "Medium" ELSE "High",
        Text("Remove duplicate rows", <<>>, dup_count), "remove_duplicates",
        Params("", "", <<>>), TRUE)

type_rec(col) ==
    Rec("Type Inconsistency", <<col.name>>, "Medium",
        Text("Standardize data types", <<col.name>>, 0), "fix_types",
        Params(col.name, "", <<>>), TRUE)

date_rec(col) ==
    Rec("Date Format", <<col.name>>, "Medium",
        Text("Standardize date format", <<col.name>>, 0), "standardize_dates",
        Params(col.name, "", <<>>), TRUE)

high_missing_rec(names) ==
    Rec("High Missing Columns", names, "High",
        Text("Remove columns with >70% missing values", names, 0), "remove_high_missing",
        Params("", "", names), FALSE)

\* a recommendation whose action apply_fixes has no branch for
whitespace_rec_unhandled(col) ==
    Rec("Whitespace", <<col.name>>, "Low",
        Text("Clean leading/trailing whitespace", <<col.name>>, 0), "strip_whitespace",
        Params(col.name, "", <<>>), TRUE)

whitespace_rec(col) ==
    Rec("Whitespace", <<col.name>>, "Low",
        Text("Clean leading/trailing whitespace", <<col.name>>, 0), "clean_whitespace",
        Params(col.name, "", <<>>), TRUE)

\* dataset[col].isnull().any()
has_null(col) == null_count(col) > 0
\* len(dataset[col].apply(type).unique()) > 1
is_mixed(col) == Cardinality(cell_types(col)) > 1
\* a date-named column whose dtype is not datetime64[ns]
needs_date_fix(col) == is_date_name(col.name) /\ col.dtype # "datetime64[ns]"
\* dataset[col].isnull().mean() > 0.7
is_high_missing(col) == 10 * null_count(col) > 7 * Len(col.cells)
\* an object column with a cell whose text starts or ends with whitespace
has_whitespace(col) ==
    /\ col.dtype = "object"
    /\ \E i \in DOMAIN col.cells : has_edge_space(astype_str(col.cells[i]))

col_name(col) == col.name

generate_ai_recommendations(dataset) ==
    LET cols == dataset.cols
        R == len(dataset)
        missing_recs == MapSeq(SelectSeq(cols, has_null), LAMBDA c : missing_rec(c, R))
        dup_count == Cardinality(duplicated(dataset))
        dup_recs == IF dup_count > 0 THEN <<duplicate_rec(dup_count, R)>> ELSE <<>>
        type_recs == MapSeq(SelectSeq(cols, is_mixed), type_rec)
        date_recs == MapSeq(SelectSeq(cols, needs_date_fix), date_rec)
        high_missing_cols == MapSeq(SelectSeq(cols, is_high_missing), col_name)
        high_recs == IF high_missing_cols # <<>> THEN <<high_missing_rec(high_missing_cols)>>
                     ELSE <<>>
        white_recs == MapSeq(SelectSeq(cols, has_whitespace), whitespace_rec)
    IN  missing_recs \o dup_recs \o type_recs \o date_recs \o high_recs \o white_recs

(***************************************************************************)
(* Column operations of the fix applier.                                   *)
(***************************************************************************)
RECURSIVE gcd(_, _)
gcd(a, b) == IF b = 0 THEN a ELSE gcd(b, a % b)

\* the fraction a / b in lowest terms, as a float cell
Frac(a, b) == LET g == gcd(a, b) IN Num(a \div g, b \div g)

\* the sum of the non-null numbers of a sequence of cells, as a pair <<num, den>>
RECURSIVE frac_sum(_)
frac_sum(cells) ==
    IF cells = <<>> THEN <<0, 1>>
    ELSE LET rest == frac_sum(Tail(cells))
             v == Head(cells)
         IN  IF isnull(v) \/ v.k # "float" THEN rest
             ELSE <<rest[1] * v.v[2] + v.v[1] * rest[2], rest[2] * v.v[2]>>

\* df[col].mean(): NaN when no cell holds a number
mean(col) ==
    LET count == Len(col.cells) - null_count(col)
        total == frac_sum(col.cells)
    IN  IF count = 0 THEN NaN ELSE Frac(total[1], total[2] * count)

\* the sort order of two non-null values of one column
less(v, w) ==
    CASE v.k = "float" /\ w.k = "float" -> v.v[1] * w.v[2] < w.v[1] * v.v[2]
      [] OTHER -> StrRank(v.v) < StrRank(w.v)

\* how many cells of the column hold v
occurrences(col, v) == Cardinality({ i \in DOMAIN col.cells : col.cells[i] = v })

\* df[col].mode(): the most frequent non-null values, sorted
mode_values(col) ==
    LET present == { col.cells[i] : i \in { j \in DOMAIN col.cells : ~isnull(col.cells[j]) } }
    IN  { v \in present : \A w \in present : occurrences(col, w) <= occurrences(col, v) }

\* df[col].mode()[0] if not df[col].mode().empty else "Missing"
mode_value(col) ==
    LET modes == mode_values(col)
    IN  IF modes = {} THEN Str("Missing")
        ELSE CHOOSE v \in modes : \A w \in modes : w = v \/ less(v, w)

\* the dtype of a column after fillna(value)
filled_dtype(col, value) ==
    IF value.k = "str" /\ has_null(col) THEN "object" ELSE col.dtype

\* df[col].fillna(value, inplace=True); fillna(NaN) fills nothing
fillna(col, value) ==
    IF isnull(value) THEN col
    ELSE Column(col.name, filled_dtype(col, value),
                [i \in DOMAIN col.cells |->
                    IF isnull(col.cells[i]) THEN value ELSE col.cells[i]])

\* pd.to_numeric(cell, errors='coerce')
to_numeric_cell(v) ==
    CASE v.k = "float" -> v
      [] v.k = "str" /\ v.v = NumText -> Num(7, 1)
      [] OTHER -> NaN

\* pd.to_numeric(df[col], errors='coerce')
to_numeric(col) ==
    Column(col.name, "float64", [i \in DOMAIN col.cells |-> to_numeric_cell(col.cells[i])])

\* the texts of the column carry more than one UTC offset
mixed_offsets(col) ==
    \A t \in OffsetTexts : \E i \in DOMAIN col.cells : col.cells[i] = Str(t)

\* pd.to_datetime(cell, errors='coerce') in a column of one offset or none: a
\* number is nanoseconds since the epoch, a text that is no date is NaT, a
\* Timestamp is kept by its day in its own offset
to_datetime_cell(v) ==
    CASE isnull(v) -> NaT
      [] v.k = "float" -> Ts(EpochText)
      [] v.k = "Timestamp" -> v
      [] v.k = "str" /\ v.v \in {DateText, EpochText} -> Ts(v.v)
      [] v.k = "str" /\ v.v \in OffsetTexts -> Ts(DateText)
      [] OTHER -> NaT

\* the datetime object pd.to_datetime makes of a text with an offset: str() of it
aware_cell(v) ==
    CASE v = Str(EastText) -> Aware("2020-01-05 00:00:00+01:00")
      [] v = Str(WestText) -> Aware("2020-01-05 00:00:00-05:00")
      [] OTHER -> NaT

\* pd.to_datetime(df[col], errors='coerce'): texts of more than one offset do
\* not fit one datetime64 dtype and come back as an object column of datetimes
to_datetime(col) ==
    IF mixed_offsets(col)
    THEN Column(col.name, "object", [i \in DOMAIN col.cells |-> aware_cell(col.cells[i])])
    ELSE Column(col.name,
                IF \E i \in DOMAIN col.cells : col.cells[i].k = "str" /\ col.cells[i].v \in OffsetTexts
                THEN "datetime64[ns, tz]" ELSE "datetime64[ns]",
                [i \in DOMAIN col.cells |-> to_datetime_cell(col.cells[i])])

\* the .dt accessor exists for datetime64 columns only (AttributeError otherwise)
has_dt(col) == col.dtype # "object"

\* df[col].dt.strftime("%Y-%m-%d"); NaT is formatted as NaN
dt_strftime(col) ==
    Column(col.name, "object",
           [i \in DOMAIN col.cells |->
               IF isnull(col.cells[i]) THEN NaN ELSE Str(col.cells[i].v)])

\* df[col].astype(str).str.strip()
clean_whitespace(col) ==
    Column(col.name, "object",
           [i \in DOMAIN col.cells |-> Str(strip(astype_str(col.cells[i])))])

\* the position of the column called name, 0 when df has none (df[name] raises KeyError)
col_index(df, name) ==
    IF \E c \in DOMAIN df.cols : df.cols[c].name = name
    THEN CHOOSE c \in DOMAIN df.cols : df.cols[c].name = name
    ELSE 0

\* df[name] = col
set_col(df, name, col) ==
    DataFrame(df.nrows, [c \in DOMAIN df.cols |->
                            IF df.cols[c].name = name THEN col ELSE df.cols[c]])

\* the subsequence of s at the positions in keep, in order
RECURSIVE pick(_, _, _)
pick(s, keep, i) ==
    IF i > Len(s) THEN <<>>
    ELSE IF i \in keep THEN <<s[i]>> \o pick(s, keep, i + 1) ELSE pick(s, keep, i + 1)

\* drop_duplicates(keep=False): every copy of a repeated row goes
drop_duplicates_all(df) ==
    LET keep == { i \in 1..len(df) : \A j \in 1..len(df) : j = i \/ ~same_row(df, i, j) }
    IN  DataFrame(Cardinality(keep),
                  [c \in DOMAIN df.cols |->
                      Column(df.cols[c].name, df.cols[c].dtype, pick(df.cols[c].cells, keep, 1))])

\* df.drop_duplicates(inplace=True)
drop_duplicates(df) ==
    LET keep == (1..len(df)) \ duplicated(df)
    IN  DataFrame(Cardinality(keep),
                  [c \in DOMAIN df.cols |->
                      Column(df.cols[c].name, df.cols[c].dtype, pick(df.cols[c].cells, keep, 1))])

\* the elements of a sequence
Range(s) == { s[i] : i \in DOMAIN s }

\* df.drop(columns=columns, inplace=True), all of them present
drop_columns(df, columns) ==
    DataFrame(df.nrows,
              pick(df.cols, { c \in DOMAIN df.cols : df.cols[c].name \notin Range(columns) }, 1))

(***************************************************************************)
(* State.                                                                  *)
(*   session_state  st.session_state: action_log, original_dataset,        *)
(*                  current_step, data_quality_score, recommendations,     *)
(*                  cleaned_dataset                                        *)
(*   uploaded_file  the file the step-1 uploader widget holds              *)
(*   page           what the last script run rendered                      *)
(*   first_run      the outcome of the first Smart Clean of a session, kept *)
(*                  to compare a second run with it                        *)
(*   second_run     the outcome of the Smart Clean that repeated it        *)
(* An audit-log entry is its action message: the timestamp of an entry     *)
(* (datetime.now()) is left out, entries are told apart by position.       *)
(***************************************************************************)
VARIABLES session_state, uploaded_file, page, first_run, second_run

vars == <<session_state, uploaded_file, page, first_run, second_run>>

\* st.session_state["original_dataset"] = None
None == DataFrame(-1, <<>>)
\* "cleaned_dataset" not in st.session_state
NoKey == DataFrame(-2, <<>>)

\* the session state the module's top level sets up (lines 12-21)
InitialSession ==
    [action_log |-> <<>>, original_dataset |-> None, current_step |-> 1,
     data_quality_score |-> Score(0), recommendations |-> <<>>,
     cleaned_dataset |-> NoKey]

\* a logger that skips a message the log already holds
log_action_once(action_log, message) ==
    IF \E i \in DOMAIN action_log : action_log[i] = message THEN action_log
    ELSE Append(action_log, message)

\* log_action(message) on a log
log_action(action_log, message) == Append(action_log, message)

\* the working state of apply_fixes: the frame df, the audit log, and whether
\* a KeyError has ended the call
Work(df, action_log, raised) == [df |-> df, action_log |-> action_log, raised |-> raised]

fix_fill_missing(w, params) ==
    LET c == col_index(w.df, params.column)
        col == w.df.cols[c]
        filled ==
            IF params.strategy = "mean" /\ is_numeric_dtype(col) THEN fillna(col, mean(col))
            ELSE IF params.strategy = "mode" THEN fillna(col, mode_value(col))
            ELSE col
    IN  IF c = 0 THEN Work(w.df, w.action_log, TRUE)
        ELSE Work(set_col(w.df, params.column, filled),
                  log_action(w.action_log,
                             Text("Filled missing values", <<params.column, params.strategy>>, 0)),
                  FALSE)

fix_remove_duplicates(w) ==
    LET before_count == len(w.df)
        after == drop_duplicates(w.df)
        after_count == len(after)
    IN  Work(after,
             log_action(w.action_log, Text("Removed duplicate rows", <<>>, before_count - after_count)),
             FALSE)

\* the try block swallows the KeyError of a missing column
fix_fix_types(w, params) ==
    LET c == col_index(w.df, params.column)
    IN  IF c # 0 /\ w.df.cols[c].dtype = "object"
        THEN Work(set_col(w.df, params.column, to_numeric(w.df.cols[c])),
                  log_action(w.action_log, Text("Converted to numeric type", <<params.column>>, 0)),
                  FALSE)
        ELSE w

\* the try block swallows the KeyError of a missing column, and the
\* AttributeError of .dt after df[col] has been assigned the converted column
fix_standardize_dates(w, params) ==
    LET c == col_index(w.df, params.column)
        converted == to_datetime(w.df.cols[c])
    IN  IF c = 0 THEN w
        ELSE IF ~has_dt(converted)
        THEN Work(set_col(w.df, params.column, converted), w.action_log, FALSE)
        ELSE Work(set_col(w.df, params.column, dt_strftime(converted)),
                  log_action(w.action_log, Text("Standardized dates", <<params.column>>, 0)),
                  FALSE)

fix_remove_high_missing(w, params) ==
    IF \E i \in DOMAIN params.columns : col_index(w.df, params.columns[i]) = 0
    THEN Work(w.df, w.action_log, TRUE)
    ELSE Work(drop_columns(w.df, params.columns),
              log_action(w.action_log,
                         Text("Removed columns with high missing values", params.columns, 0)),
              FALSE)

fix_clean_whitespace(w, params) ==
    LET c == col_index(w.df, params.column)
    IN  IF c = 0 THEN Work(w.df, w.action_log, TRUE)
        ELSE IF w.df.cols[c].dtype = "object"
        THEN Work(set_col(w.df, params.column, clean_whitespace(w.df.cols[c])),
                  log_action(w.action_log, Text("Cleaned whitespace", <<params.column>>, 0)),
                  FALSE)
        ELSE w

\* the actions the if / elif chain of apply_fixes has a branch for
handled_actions ==
    {"fill_missing", "remove_duplicates", "fix_types", "standardize_dates",
     "remove_high_missing", "clean_whitespace"}

\* one pass of the loop body of apply_fixes; an action with no branch does nothing
apply_fix(w, rec) ==
    CASE rec.action = "fill_missing" -> fix_fill_missing(w, rec.params)
      [] rec.action = "remove_duplicates" -> fix_remove_duplicates(w)
      [] rec.action = "fix_types" -> fix_fix_types(w, rec.params)
      [] rec.action = "standardize_dates" -> fix_standardize_dates(w, rec.params)
      [] rec.action = "remove_high_missing" -> fix_remove_high_missing(w, rec.params)
      [] rec.action = "clean_whitespace" -> fix_clean_whitespace(w, rec.params)
      [] OTHER -> w

\* the loop of apply_fixes over the first k selected recommendations; an
\* exception ends it
RECURSIVE apply_loop(_, _, _)
apply_loop(w, selected_recommendations, k) ==
    IF k = 0 THEN w
    ELSE LET before == apply_loop(w, selected_recommendations, k - 1)
         IN  IF before.raised THEN before
             ELSE apply_fix(before, selected_recommendations[k])

\* df = dataset: the loop works on the caller's frame
copy_alias(dataset) == [aliased |-> TRUE, df |-> dataset]

\* df = dataset.copy(): the frame the loop works on shares nothing with dataset
copy(dataset) == [aliased |-> FALSE, df |-> dataset]

\* apply_fixes(dataset, selected_recommendations), called in session state ss.
\* The result holds the returned frame df (meaningless when raised), the
\* dataset argument as the call leaves it, and the session state after it.
apply_fixes_in(ss, dataset, selected_recommendations) ==
    LET start == copy(dataset)
        w == apply_loop(Work(start.df, ss.action_log, FALSE), selected_recommendations,
                        Len(selected_recommendations))
    IN  IF selected_recommendations = <<>>
        THEN [df |-> dataset, dataset |-> dataset, session_state |-> ss, raised |-> FALSE]
        ELSE [df |-> w.df,
              dataset |-> IF start.aliased THEN w.df ELSE dataset,
              session_state |->
                  [ss EXCEPT !.action_log = w.action_log,
                             !.data_quality_score =
                                 IF w.raised THEN @ ELSE calculate_quality_score(w.df)],
              raised |-> w.raised]

apply_fixes(dataset, selected_recommendations) ==
    apply_fixes_in(session_state, dataset, selected_recommendations)

(***************************************************************************)
(* The script main(): one run renders the page of the current step.        *)
(***************************************************************************)
\* the uploader holds no file
NoFile == [present |-> FALSE, readable |-> FALSE, dataset |-> None]
\* a file pd.read_csv / read_excel / read_parquet loads as dataset
FileOf(dataset) == [present |-> TRUE, readable |-> TRUE, dataset |-> dataset]
\* a file the reader raises on
BadFile == [present |-> TRUE, readable |-> FALSE, dataset |-> None]

Page(step, message, buttons, downloads, original_score, new_score, audit_log) ==
    [step |-> step, message |-> message, buttons |-> buttons, downloads |-> downloads,
     original_score |-> original_score, new_score |-> new_score, audit_log |-> audit_log]

\* a page that shows no score, no log and no download
Plain(step, message, buttons) == Page(step, message, buttons, FALSE, ScoreNaN, ScoreNaN, <<>>)

Run(ss, pg) == [session_state |-> ss, page |-> pg]

\* display_quality_dashboard: computes the score "if not already done"
display_quality_dashboard(ss, dataset) ==
    IF ss.data_quality_score = Score(0)
    THEN [ss EXCEPT !.data_quality_score = calculate_quality_score(dataset)]
    ELSE ss

\* an upload page whose Continue button stands outside the try block
render_upload_lenient(ss, file) ==
    IF ~file.present THEN Run(ss, Plain(1, "Upload Dataset", {}))
    ELSE IF ~file.readable THEN Run(ss, Plain(1, "Error loading file", {"Continue to Analysis"}))
    ELSE Run([ss EXCEPT !.original_dataset = file.dataset],
             Plain(1, "Dataset Preview", {"Continue to Analysis"}))

\* Step 1: Upload Data
render_upload(ss, file) ==
    IF ~file.present THEN Run(ss, Plain(1, "Upload Dataset", {}))
    ELSE IF ~file.readable THEN Run(ss, Plain(1, "Error loading file", {}))
    ELSE Run([ss EXCEPT !.original_dataset = file.dataset],
             Plain(1, "Dataset Preview", {"Continue to Analysis"}))

\* an analysis page that keeps the recommendations it already holds
render_analysis_cached(ss) ==
    IF ss.original_dataset # None
    THEN LET dataset == ss.original_dataset
             recommendations == IF ss.recommendations # <<>> THEN ss.recommendations
                                ELSE generate_ai_recommendations(dataset)
             analysed == [ss EXCEPT !.recommendations = recommendations,
                                    !.data_quality_score = calculate_quality_score(dataset)]
         IN  Run(display_quality_dashboard(analysed, dataset),
                 Plain(2, IF recommendations = <<>> THEN "No issues detected"
                          ELSE "AI-Recommended Cleaning Actions",
                       {"Back to Upload", "Continue to Cleaning"}))
    ELSE Run(ss, Plain(2, "Please upload a dataset first.", {"Go to Upload"}))

\* Step 2: AI Analysis
render_analysis(ss) ==
    IF ss.original_dataset # None
    THEN LET dataset == ss.original_dataset
             recommendations == generate_ai_recommendations(dataset)
             analysed == [ss EXCEPT !.recommendations = recommendations,
                                    !.data_quality_score = calculate_quality_score(dataset)]
         IN  Run(display_quality_dashboard(analysed, dataset),
                 Plain(2, IF recommendations = <<>> THEN "No issues detected"
                          ELSE "AI-Recommended Cleaning Actions",
                       {"Back to Upload", "Continue to Cleaning"}))
    ELSE Run(ss, Plain(2, "Please upload a dataset first.", {"Go to Upload"}))

\* Step 3: Clean Data, no button pressed
render_cleaning(ss) ==
    IF ss.original_dataset # None
    THEN IF ss.recommendations = <<>>
         THEN Run(ss, Plain(3, "Your dataset is already clean!",
                            {"Back to Analysis", "Continue to Export"}))
         ELSE Run(ss, Plain(3, "Select Cleaning Actions",
                            {"Smart Clean", "Select All Recommended",
                             "Back to Analysis", "Continue to Export"}))
    ELSE Run(ss, Plain(3, "Please upload a dataset first.", {"Go to Upload"}))

\* a review page that exports the original when nothing has been cleaned
render_export_unguarded(ss) ==
    LET cleaned == IF ss.cleaned_dataset # NoKey THEN ss.cleaned_dataset ELSE ss.original_dataset
    IN  Run(ss, Page(4, "Data Quality Improvement", {"Back to Cleaning", "Start New Project"},
                     TRUE,
                     calculate_quality_score(ss.original_dataset),
                     calculate_quality_score(cleaned),
                     ss.action_log))

\* a review page that stores the new score in the session, as the analysis page does
render_export_storing(ss) ==
    IF ss.cleaned_dataset # NoKey
    THEN Run([ss EXCEPT !.data_quality_score = calculate_quality_score(ss.cleaned_dataset)],
             Page(4, "Data Quality Improvement", {"Back to Cleaning", "Start New Project"},
                  TRUE,
                  calculate_quality_score(ss.original_dataset),
                  calculate_quality_score(ss.cleaned_dataset),
                  ss.action_log))
    ELSE Run(ss, Plain(4, "Please complete the cleaning step first.", {"Go to Cleaning"}))

\* Step 4: Review & Export
render_export(ss) ==
    IF ss.cleaned_dataset # NoKey
    THEN Run(ss, Page(4, "Data Quality Improvement", {"Back to Cleaning", "Start New Project"},
                      TRUE,
                      calculate_quality_score(ss.original_dataset),
                      calculate_quality_score(ss.cleaned_dataset),
                      ss.action_log))
    ELSE Run(ss, Plain(4, "Please complete the cleaning step first.", {"Go to Cleaning"}))

\* one run of the script with no button pressed
main(ss, file) ==
    CASE ss.current_step = 1 -> render_upload(ss, file)
      [] ss.current_step = 2 -> render_analysis(ss)
      [] ss.current_step = 3 -> render_cleaning(ss)
      [] OTHER -> render_export(ss)

\* a navigation button: the run that sees the click renders the current step,
\* sets current_step and reruns; the uploader is not part of the pages after
\* step 1 and comes back empty
goto_step(step) ==
    LET seen == main(session_state, uploaded_file).session_state
        after == main([seen EXCEPT !.current_step = step], NoFile)
    IN  /\ session_state' = after.session_state
        /\ page' = after.page
        /\ uploaded_file' = NoFile

(***************************************************************************)
(* The user's operations.                                                  *)
(***************************************************************************)
\* the user puts file into the uploader of step 1
Upload(file) ==
    /\ page.step = 1
    /\ LET after == main(session_state, file)
       IN  /\ session_state' = after.session_state
           /\ page' = after.page
    /\ uploaded_file' = file
    /\ UNCHANGED <<first_run, second_run>>

\* the user removes the file from the uploader
ClearUpload ==
    /\ page.step = 1
    /\ uploaded_file.present
    /\ LET after == main(session_state, NoFile)
       IN  /\ session_state' = after.session_state
           /\ page' = after.page
    /\ uploaded_file' = NoFile
    /\ UNCHANGED <<first_run, second_run>>

ContinueToAnalysis ==
    /\ "Continue to Analysis" \in page.buttons
    /\ goto_step(2)
    /\ UNCHANGED <<first_run, second_run>>

BackToUpload ==
    /\ "Back to Upload" \in page.buttons
    /\ goto_step(1)
    /\ UNCHANGED <<first_run, second_run>>

\* a Continue button that skips the cleaning step
ContinueToCleaning_skip ==
    /\ "Continue to Cleaning" \in page.buttons
    /\ goto_step(4)
    /\ UNCHANGED <<first_run, second_run>>

ContinueToCleaning ==
    /\ "Continue to Cleaning" \in page.buttons
    /\ goto_step(3)
    /\ UNCHANGED <<first_run, second_run>>

BackToAnalysis ==
    /\ "Back to Analysis" \in page.buttons
    /\ goto_step(2)
    /\ UNCHANGED <<first_run, second_run>>

ContinueToExport ==
    /\ "Continue to Export" \in page.buttons
    /\ goto_step(4)
    /\ UNCHANGED <<first_run, second_run>>

BackToCleaning ==
    /\ "Back to Cleaning" \in page.buttons
    /\ goto_step(3)
    /\ UNCHANGED <<first_run, second_run>>

GoToCleaning ==
    /\ "Go to Cleaning" \in page.buttons
    /\ goto_step(3)
    /\ UNCHANGED <<first_run, second_run>>

\* the button of the "Please upload a dataset first." warnings
GoToUpload ==
    /\ "Go to Upload" \in page.buttons
    /\ goto_step(1)
    /\ UNCHANGED <<first_run, second_run>>

\* every key is deleted, action_log and current_step are set, and the rerun
\* sets the other keys up again at the module's top level
StartNewProject ==
    /\ "Start New Project" \in page.buttons
    /\ LET after == main(InitialSession, NoFile)
       IN  /\ session_state' = after.session_state
           /\ page' = after.page
    /\ uploaded_file' = NoFile
    /\ UNCHANGED <<first_run, second_run>>

\* "Select All Recommended" only shows a note
SelectAllRecommended ==
    /\ "Select All Recommended" \in page.buttons
    /\ page' = [main(session_state, uploaded_file).page EXCEPT !.message = "would select all"]
    /\ UNCHANGED <<session_state, uploaded_file, first_run, second_run>>

\* the outcome of one Smart Clean: the ticked checkboxes, the dataset handed to
\* apply_fixes before and after the call, what the call returned and appended
NoRun ==
    [ran |-> FALSE, selected |-> {}, dataset |-> None, dataset_after |-> None,
     df |-> None, appended |-> <<>>, raised |-> FALSE]

RunRecord(selected, dataset, result, log_before) ==
    [ran |-> TRUE, selected |-> selected, dataset |-> dataset,
     dataset_after |-> result.dataset, df |-> IF result.raised THEN None ELSE result.df,
     appended |-> SubSeq(result.session_state.action_log, Len(log_before) + 1,
                         Len(result.session_state.action_log)),
     raised |-> result.raised]

\* the recommendations whose checkbox is ticked, in the order of the tabs
selected_recs(recommendations, selected) == pick(recommendations, selected, 1)

\* "Smart Clean (Apply Selected)" with the checkboxes in selected ticked.  An
\* exception of apply_fixes ends the run: nothing after the call is stored or
\* rendered, what the call had logged stays
smart_clean(ss, selected) ==
    LET dataset == ss.original_dataset
        result == apply_fixes_in(ss, dataset, selected_recs(ss.recommendations, selected))
    IN  IF result.raised
        THEN Run(result.session_state, Plain(3, "KeyError", {"Smart Clean"}))
        ELSE Run([result.session_state EXCEPT !.cleaned_dataset = result.df],
                 Plain(3, "Cleaning completed successfully!",
                       {"Smart Clean", "Select All Recommended",
                        "Back to Analysis", "Continue to Export"}))

SmartCleanWith(selected) ==
    /\ "Smart Clean" \in page.buttons
    /\ selected \subseteq DOMAIN session_state.recommendations
    /\ LET after == smart_clean(session_state, selected)
       IN  /\ session_state' = after.session_state
           /\ page' = after.page
    /\ UNCHANGED uploaded_file

SmartClean ==
    \E selected \in SUBSET DOMAIN session_state.recommendations :
        /\ SmartCleanWith(selected)
        /\ Len(session_state'.action_log) <= MaxLog
        /\ UNCHANGED <<first_run, second_run>>

(***************************************************************************)
(* The wizard: the files a user uploads and every click.                   *)
(***************************************************************************)
\* a dataset with no issue
CleanData == DataFrame(2, <<Column("qty", "float64", <<Num(1, 1), Num(2, 1)>>)>>)
\* a missing cell and a repeated row
DirtyData == DataFrame(3, <<Column("qty", "float64", <<Num(1, 1), Num(1, 1), NaN>>)>>)
\* a text column that is three quarters empty and has a cell with a leading blank
SparseData ==
    DataFrame(4, <<Column("id", "float64", <<Num(1, 1), Num(2, 1), Num(3, 1), Num(4, 1)>>),
                   Column("qty", "object", <<Str(SpText), NaN, NaN, NaN>>)>>)

Files == { FileOf(CleanData), FileOf(DirtyData), FileOf(SparseData), BadFile }

Init ==
    /\ session_state = InitialSession
    /\ uploaded_file = NoFile
    /\ page = main(InitialSession, NoFile).page
    /\ first_run = NoRun
    /\ second_run = NoRun

Next ==
    \/ \E file \in Files : Upload(file)
    \/ ClearUpload
    \/ ContinueToAnalysis
    \/ BackToUpload
    \/ ContinueToCleaning
    \/ SelectAllRecommended
    \/ SmartClean
    \/ BackToAnalysis
    \/ ContinueToExport
    \/ BackToCleaning
    \/ GoToCleaning
    \/ StartNewProject

Spec == Init /\ [][Next]_vars

(***************************************************************************)
(* The engine on every dataset of the bounds: one session that uploads a   *)
(* dataset, analyses it, Smart Cleans a selection and repeats that Smart   *)
(* Clean.                                                                  *)
(***************************************************************************)
EngineInit ==
    \E dataset \in Datasets(MaxRows) :
        LET after == main(InitialSession, FileOf(dataset))
        IN  /\ session_state = after.session_state
            /\ page = after.page
            /\ uploaded_file = FileOf(dataset)
            /\ first_run = NoRun
            /\ second_run = NoRun

FirstClean ==
    /\ ~first_run.ran
    /\ \E selected \in SUBSET DOMAIN session_state.recommendations :
        /\ SmartCleanWith(selected)
        /\ first_run' = RunRecord(selected, session_state.original_dataset,
                                  apply_fixes(session_state.original_dataset,
                                              selected_recs(session_state.recommendations, selected)),
                                  session_state.action_log)
    /\ UNCHANGED second_run

RepeatClean ==
    /\ first_run.ran
    /\ ~second_run.ran
    /\ SmartCleanWith(first_run.selected)
    /\ second_run' = RunRecord(first_run.selected, session_state.original_dataset,
                               apply_fixes(session_state.original_dataset,
                                           selected_recs(session_state.recommendations,
                                                         first_run.selected)),
                               session_state.action_log)
    /\ UNCHANGED first_run

EngineNext ==
    \/ ContinueToAnalysis
    \/ ContinueToCleaning
    \/ FirstClean
    \/ RepeatClean

SpecEngine == EngineInit /\ [][EngineNext]_vars

(***************************************************************************)
(* The stand-alone pre-check and cleaning scripts: dataset_precheck_       *)
(* workflow.py, dataset_precheck_workflow_local130125.py (and its earlier  *)
(* version of 060125) and data_cleaning_workflow.py.  One run of a script  *)
(* with one button pressed is one action.  session_state holds the dataset *)
(* key of these scripts, uploaded_file the file the run loads, page what   *)
(* the run showed: the script, its message, the dataset before and after,  *)
(* the verdicts of the pre-check, and whether the run ended in an          *)
(* exception.                                                              *)
(***************************************************************************)
\* the integer column label 2020, as read_excel and read_json load a header
\* that is a number; a label is written by its text
IntLabel == "2020"
\* a str label with a blank in it
SpacedLabel == "unit price"
\* a str label that is an identifier
NoteLabel == "note"

\* the label is a str
is_str_label(name) == name # IntLabel
\* col.isidentifier() of a str label
isidentifier(name) == name \notin {SpacedLabel, IntLabel}

\* the cells of an object column that may hold a number among its texts
ScanCells == {NaN, Num(1, 1), Str(SpText)}
ScanLabels == {NoteLabel, SpacedLabel, IntLabel}

\* the datasets the scripts are run on: an optional numeric column qty and an
\* optional object column under one of the labels; a file with no column
\* loads with no row
ScanDatasetsOfRows(r) ==
    LET firsts == { <<>> } \cup { <<Column("qty", "float64", cells)>> :
                                    cells \in [1..r -> CellsOf("qty", "float64")] }
        seconds == { <<>> } \cup { <<Column(name, "object", cells)>> :
                                     name \in ScanLabels, cells \in [1..r -> ScanCells] }
    IN  { d \in { DataFrame(r, c1 \o c2) : c1 \in firsts, c2 \in seconds } :
            r = 0 \/ d.cols # <<>> }

ScanDatasets(max_rows) == UNION { ScanDatasetsOfRows(r) : r \in 0..max_rows }

\* the verdict messages of dataset_precheck_workflow
IssuesDetected == "Issues detected in the dataset. Please resolve them before proceeding."
NoIssuesDetected == "No issues detected in the dataset. Ready to proceed."

\* dataset_precheck_workflow(dataset): the verdicts shown, and whether the
\* call raised (col.isidentifier() of a label that is no str: AttributeError)
dataset_precheck_workflow(dataset) ==
    LET total_missing == null_sum(dataset.cols)
        duplicate_count == Cardinality(duplicated(dataset))
        labels == MapSeq(dataset.cols, col_name)
        raised == \E c \in DOMAIN labels : ~is_str_label(labels[c])
        non_standard_cols == SelectSeq(labels, LAMBDA name : ~isidentifier(name))
        mixed_columns == MapSeq(SelectSeq(dataset.cols, is_mixed), col_name)
        issues_detected == \/ total_missing > 0
                           \/ duplicate_count > 0
                           \/ non_standard_cols # <<>>
                           \/ mixed_columns # <<>>
    IN  IF raised THEN [raised |-> TRUE, verdicts |-> <<>>]
        ELSE [raised |-> FALSE,
              verdicts |-> IF issues_detected THEN <<IssuesDetected>> ELSE <<NoIssuesDetected>>]

\* run_precheck: issue_summary["Blank Cells"]
blank_cells(dataset) == null_sum(dataset.cols)

\* run_precheck: issue_summary["Whitespace Issues"]
RECURSIVE whitespace_issues_of(_)
whitespace_issues_of(cols) ==
    IF cols = <<>> THEN 0
    ELSE Cardinality({ i \in DOMAIN Head(cols).cells :
                         has_edge_space(astype_str(Head(cols).cells[i])) })
         + whitespace_issues_of(Tail(cols))

whitespace_issues(dataset) == whitespace_issues_of(dataset.cols)

\* run_cleaning_workflow, "Fill with Mean/Average": numeric columns only
fill_with_mean(dataset) ==
    DataFrame(dataset.nrows,
              [c \in DOMAIN dataset.cols |->
                  IF is_numeric_dtype(dataset.cols[c])
                  THEN fillna(dataset.cols[c], mean(dataset.cols[c]))
                  ELSE dataset.cols[c]])

\* run_cleaning_workflow, "Trim Whitespaces": every column
trim_whitespaces(dataset) ==
    DataFrame(dataset.nrows,
              [c \in DOMAIN dataset.cols |-> clean_whitespace(dataset.cols[c])])

ScriptPage(script, message, before, dataset, verdicts, raised) ==
    [script |-> script, message |-> message, before |-> before, dataset |-> dataset,
     verdicts |-> verdicts, raised |-> raised]

\* the pre-check of the dataset the session holds
Precheck ==
    /\ page.script # "dataset_precheck_workflow"
    /\ LET result == dataset_precheck_workflow(session_state.dataset)
       IN  page' = ScriptPage("dataset_precheck_workflow", Text("", <<>>, 0),
                              session_state.dataset, session_state.dataset,
                              result.verdicts, result.raised)
    /\ UNCHANGED <<session_state, uploaded_file, first_run, second_run>>

\* "Execute Cleaning for Blank Cells" with "Fill with Mean/Average" chosen; the
\* run works on the dataset it loaded from the uploaded file
FillWithMean ==
    /\ page.script # "fill_with_mean"
    /\ page' = ScriptPage("fill_with_mean", Text("Blank cells handled successfully!", <<>>, 0),
                          uploaded_file.dataset, fill_with_mean(uploaded_file.dataset),
                          <<>>, FALSE)
    /\ UNCHANGED <<session_state, uploaded_file, first_run, second_run>>

\* "Execute Cleaning for Whitespace Issues" with "Trim Whitespaces" chosen
TrimWhitespaces ==
    /\ page.script # "trim_whitespaces"
    /\ page' = ScriptPage("trim_whitespaces", Text("Whitespace issues handled successfully!", <<>>, 0),
                          uploaded_file.dataset, trim_whitespaces(uploaded_file.dataset),
                          <<>>, FALSE)
    /\ UNCHANGED <<session_state, uploaded_file, first_run, second_run>>

\* data_cleaning_workflow, "Remove Duplicates": the button is shown when there
\* is a duplicate row, the message gives the count taken before the removal,
\* and the session holds the dataset afterwards
RemoveDuplicates ==
    LET dataset == session_state.dataset
        duplicate_count == Cardinality(duplicated(dataset))
    IN  /\ duplicate_count > 0
        /\ session_state' = [session_state EXCEPT !.dataset = drop_duplicates(dataset)]
        /\ page' = ScriptPage("data_cleaning_workflow",
                              Text("Removed duplicate rows", <<>>, duplicate_count),
                              dataset, drop_duplicates(dataset), <<>>, FALSE)
        /\ UNCHANGED <<uploaded_file, first_run, second_run>>

\* apply_fixes with the remove_duplicates recommendation alone: the message is
\* the entry it logs
ApplyRemoveDuplicates ==
    LET dataset == session_state.dataset
        w == fix_remove_duplicates(Work(dataset, <<>>, FALSE))
    IN  /\ page.script # "apply_fixes"
        /\ page' = ScriptPage("apply_fixes", w.action_log[1], dataset, w.df, <<>>, FALSE)
        /\ UNCHANGED <<session_state, uploaded_file, first_run, second_run>>

ScriptsInit ==
    \E dataset \in ScanDatasets(MaxRows) :
        /\ session_state = [dataset |-> dataset]
        /\ uploaded_file = FileOf(dataset)
        /\ page = ScriptPage("upload", Text("", <<>>, 0), dataset, dataset, <<>>, FALSE)
        /\ first_run = NoRun
        /\ second_run = NoRun

ScriptsNext ==
    \/ Precheck
    \/ FillWithMean
    \/ TrimWhitespaces
    \/ RemoveDuplicates
    \/ ApplyRemoveDuplicates

SpecScripts == ScriptsInit /\ [][ScriptsNext]_vars

(***************************************************************************)
(* Properties.                                                             *)
(***************************************************************************)
session == session_state

\* a score that is a number between 0 and 100
score_in_range(score) == ~score.nan /\ 0 <= score.tenths /\ score.tenths <= 1000

\* the datasets a score has been computed for in this state: the analysed
\* original, and the frame a completed apply_fixes returned
scored_original == page.step \in {2, 3}
\* apply_fixes has returned from its loop and stored the score of its frame
scored_cleaned == first_run.ran /\ ~first_run.raised /\ first_run.selected # {}

\* C1: calculate_quality_score returns a number between 0 and 100 for every
\* dataset, one with zero rows or zero columns included
C1_ScoreBetween0And100 ==
    (scored_original \/ scored_cleaned) => score_in_range(session.data_quality_score)

\* the counts the score is made of, taken cell by cell and row by row
missing_cells(dataset) ==
    Cardinality({ p \in (DOMAIN dataset.cols) \X (1..dataset.nrows) :
                    dataset.cols[p[1]].cells[p[2]] \in {NaN, NaT} })
repeated_rows(dataset) ==
    Cardinality({ i \in 1..dataset.nrows :
                    \E j \in 1..(i - 1) : \A c \in DOMAIN dataset.cols :
                        dataset.cols[c].cells[j] = dataset.cols[c].cells[i] })
single_type_columns(dataset) ==
    Cardinality({ c \in DOMAIN dataset.cols :
                    \A i, j \in 1..dataset.nrows :
                        dataset.cols[c].cells[i].k = dataset.cols[c].cells[j].k })

\* score is 100 x (0.4 x (1 - missing) + 0.3 x (1 - repeated) + 0.3 x single-type)
\* of the dataset, rounded to one decimal
is_weighted_score(score, dataset) ==
    LET R == dataset.nrows
        C == Len(dataset.cols)
        exact == 400 * (R * C - missing_cells(dataset))
                 + 300 * (R - repeated_rows(dataset)) * C
                 + 300 * single_type_columns(dataset) * R
        off == score.tenths * R * C - exact
    IN  /\ ~score.nan
        /\ 2 * off <= R * C
        /\ -2 * off <= R * C
        /\ (missing_cells(dataset) = 0 /\ repeated_rows(dataset) = 0
            /\ single_type_columns(dataset) = C) => score.tenths = 1000

has_cells(dataset) == dataset.nrows >= 1 /\ Len(dataset.cols) >= 1

\* C2: for a dataset with at least one row and one column the score is the
\* weighted blend 0.4 / 0.3 / 0.3 of the three ratios, rounded to one decimal,
\* and a dataset with no missing cell, no repeated row and no mixed column scores 100
C2_ScoreIsWeightedBlend ==
    /\ (scored_original /\ ~first_run.ran /\ has_cells(session.original_dataset))
         => is_weighted_score(session.data_quality_score, session.original_dataset)
    /\ (scored_cleaned /\ has_cells(session.cleaned_dataset))
         => is_weighted_score(session.data_quality_score, session.cleaned_dataset)

C2_Witness ==
    /\ scored_original /\ ~first_run.ran
    /\ session.original_dataset.nrows = 3
    /\ Len(session.original_dataset.cols) = 2
    /\ missing_cells(session.original_dataset) = 1
    /\ repeated_rows(session.original_dataset) = 1
    /\ single_type_columns(session.original_dataset) = 1
    /\ session.data_quality_score = Score(683)

log_text(action) ==
    CASE action = "fill_missing" -> "Filled missing values"
      [] action = "remove_duplicates" -> "Removed duplicate rows"
      [] action = "fix_types" -> "Converted to numeric type"
      [] action = "standardize_dates" -> "Standardized dates"
      [] action = "remove_high_missing" -> "Removed columns with high missing values"
      [] OTHER -> "Cleaned whitespace"

\* s is a prefix of t
is_prefix(s, t) == Len(s) <= Len(t) /\ SubSeq(t, 1, Len(s)) = s

\* every fix of the run leaves the log as it was or appends one entry, its own,
\* and appends one when it changes the frame
fixes_logged(dataset, recs, log0) ==
    \A k \in 1..Len(recs) :
        LET before == apply_loop(Work(dataset, log0, FALSE), recs, k - 1)
            after == apply_loop(Work(dataset, log0, FALSE), recs, k)
        IN  (~before.raised) =>
              /\ \/ after.action_log = before.action_log
                 \/ /\ Len(after.action_log) = Len(before.action_log) + 1
                    /\ is_prefix(before.action_log, after.action_log)
                    /\ after.action_log[Len(after.action_log)].text = log_text(recs[k].action)
              /\ after.df # before.df => Len(after.action_log) = Len(before.action_log) + 1

\* C5: every fix that changes the working dataset appends exactly one entry to
\* the end of the audit log, in the order of the fixes, and no entry already
\* in the log is changed or removed
C5_OneEntryPerFix ==
    first_run.ran =>
        /\ fixes_logged(session.original_dataset,
                        selected_recs(session.recommendations, first_run.selected), <<>>)
        /\ fixes_logged(session.original_dataset,
                        selected_recs(session.recommendations, first_run.selected),
                        first_run.appended)
        /\ is_prefix(first_run.appended, session.action_log)

\* the frame and the log are what one run of apply_fixes on an uploaded dataset,
\* started with an empty log, returns and logs
produced_by_one_run(df, action_log) ==
    \E file \in { f \in Files : f.readable } :
        LET recs == generate_ai_recommendations(file.dataset)
        IN  \E selected \in SUBSET DOMAIN recs :
                LET result == apply_fixes_in(InitialSession, file.dataset,
                                             selected_recs(recs, selected))
                IN  /\ ~result.raised
                    /\ result.df = df
                    /\ result.session_state.action_log = action_log

\* C6: the audit log shown at step 4 holds exactly the actions applied to
\* produce the stored cleaned dataset
C6_LogMatchesCleaned ==
    (page.step = 4 /\ page.downloads) =>
        produced_by_one_run(session.cleaned_dataset, page.audit_log)

\* C7: every generated recommendation has the seven fields, a severity of
\* High, Medium or Low, a boolean auto_fix and an action apply_fixes handles
C7_RecommendationShape ==
    \A i \in DOMAIN session.recommendations :
        LET rec == session.recommendations[i]
        IN  /\ DOMAIN rec = {"issue", "column", "severity", "description", "action",
                             "params", "auto_fix"}
            /\ rec.severity \in {"High", "Medium", "Low"}
            /\ rec.auto_fix \in BOOLEAN
            /\ rec.action \in handled_actions

C7_Witness ==
    /\ Len(session.recommendations) >= 6
    /\ { session.recommendations[i].severity : i \in DOMAIN session.recommendations }
         = {"High", "Medium", "Low"}
    /\ { session.recommendations[i].action : i \in DOMAIN session.recommendations } = handled_actions

\* C8: apply_fixes leaves the dataset passed to it as it was, and the stored
\* original dataset changes only by an upload or by Start New Project
C8_OriginalUntouched ==
    /\ []("Smart Clean" \in page.buttons =>
            \A selected \in SUBSET DOMAIN session.recommendations :
                apply_fixes(session.original_dataset,
                            selected_recs(session.recommendations, selected)).dataset
                  = session.original_dataset)
    /\ [][session_state'.original_dataset # session_state.original_dataset =>
            \/ /\ page.step = 1
               /\ page'.step = 1
               /\ uploaded_file'.readable
               /\ session_state'.original_dataset = uploaded_file'.dataset
            \/ /\ "Start New Project" \in page.buttons
               /\ session_state' = InitialSession]_vars

C8_Witness ==
    /\ page.message = "Cleaning completed successfully!"
    /\ session.cleaned_dataset # session.original_dataset
    /\ session.cleaned_dataset.nrows < session.original_dataset.nrows

\* C9: current_step starts at 1 and stays in 1..4; step 2 is entered from 1 or
\* 3, step 3 from 2 or 4, step 4 from 3, and a move to step 1 from step 3 or 4
\* is Go to Upload or Start New Project
C9_StepOrder ==
    /\ session_state.current_step = 1
    /\ [](session_state.current_step \in 1..4)
    /\ [][LET from == session_state.current_step
              to == session_state'.current_step
          IN  \/ to = from
              \/ to = 1 /\ from = 2
              \/ to = 1 /\ from \in {3, 4}
                   /\ page.buttons \cap {"Go to Upload", "Start New Project"} # {}
              \/ to = 2 /\ from \in {1, 3}
              \/ to = 3 /\ from \in {2, 4}
              \/ to = 4 /\ from = 3]_vars

C9_Witness ==
    /\ session.current_step = 4
    /\ page.downloads
    /\ "Start New Project" \in page.buttons

\* C10: for every uploaded dataset the user can reach a cleaned dataset offered
\* for download: at the cleaning step a cleaned dataset is stored or the one
\* button that stores it is offered
C10_DownloadReachable ==
    (page.step = 3 /\ session.original_dataset # None /\ session.cleaned_dataset = NoKey)
        => "Smart Clean" \in page.buttons

\* C11: the downloads are offered only at step 4 with a cleaned dataset stored;
\* step 4 without one shows only the warning and its button; and the cleaned
\* dataset is stored by Smart Clean alone (Start New Project removes it)
C11_DownloadsNeedCleaned ==
    /\ [](page.downloads => page.step = 4 /\ session.cleaned_dataset # NoKey)
    /\ [](page.step = 4 /\ session.cleaned_dataset = NoKey =>
            /\ ~page.downloads
            /\ page.message = "Please complete the cleaning step first."
            /\ page.buttons = {"Go to Cleaning"})
    /\ [][session_state'.cleaned_dataset # session_state.cleaned_dataset =>
            \/ /\ "Smart Clean" \in page.buttons
               /\ page'.message = "Cleaning completed successfully!"
            \/ /\ "Start New Project" \in page.buttons
               /\ session_state'.cleaned_dataset = NoKey]_vars

C11_Witness ==
    /\ page.step = 4
    /\ session.cleaned_dataset = NoKey
    /\ session.recommendations # <<>>
    /\ "Go to Cleaning" \in page.buttons

\* C16: for every subset of the generated recommendations, in the generated
\* order, apply_fixes completes without raising
C16_ApplyFixesCompletes ==
    "Smart Clean" \in page.buttons =>
        \A selected \in SUBSET DOMAIN session.recommendations :
            ~apply_fixes(session.original_dataset,
                         selected_recs(session.recommendations, selected)).raised

\* the stored cleaned dataset is what apply_fixes returns for the stored
\* original dataset and some subset of its recommendations
derived_from_original(sess) ==
    LET recs == generate_ai_recommendations(sess.original_dataset)
    IN  \E selected \in SUBSET DOMAIN recs :
            LET result == apply_fixes_in(sess, sess.original_dataset, selected_recs(recs, selected))
            IN  ~result.raised /\ result.df = sess.cleaned_dataset

\* C17: the cleaned dataset reviewed and exported at step 4 was produced by
\* apply_fixes from the original dataset that is stored now
C17_CleanedFromStoredOriginal ==
    (page.step = 4 /\ page.downloads) => derived_from_original(session)

\* C19: at steps 2, 3 and 4 an original dataset is stored, and the "Please
\* upload a dataset first." warning is never rendered
C19_OriginalStored ==
    /\ session.current_step \in {2, 3, 4} => session.original_dataset # None
    /\ page.message # "Please upload a dataset first."

C19_Witness ==
    /\ page.step = 2
    /\ session.original_dataset = CleanData
    /\ session.cleaned_dataset # NoKey
    /\ session.action_log # <<>>

\* C20: whenever step 3 is displayed the stored recommendations are those
\* generate_ai_recommendations returns for the stored original dataset
C20_RecommendationsCurrent ==
    page.step = 3 =>
        session.recommendations = generate_ai_recommendations(session.original_dataset)

C20_Witness ==
    /\ page.step = 3
    /\ session.original_dataset = SparseData
    /\ session.recommendations # <<>>
    /\ session.cleaned_dataset # NoKey
    /\ session.cleaned_dataset.cols[1].name = "qty"

\* C18: for every subset of the generated recommendations the score of the
\* dataset apply_fixes returns is not lower than the score of the original
C18_ScoreNeverLower ==
    (first_run.ran /\ ~first_run.raised) =>
        LET original_score == calculate_quality_score(first_run.dataset)
            new_score == calculate_quality_score(first_run.df)
        IN  (~original_score.nan /\ ~new_score.nan) =>
                new_score.tenths >= original_score.tenths

\* C12: the pre-check reports "No issues detected" exactly when the dataset has
\* no missing cell, no duplicate row, only identifier column names and no
\* mixed-type column, "Issues detected" in every other case, and one verdict per run
C12_PrecheckVerdict ==
    page.script = "dataset_precheck_workflow" =>
        LET dataset == page.dataset
            clean == /\ missing_cells(dataset) = 0
                     /\ repeated_rows(dataset) = 0
                     /\ \A c \in DOMAIN dataset.cols :
                            dataset.cols[c].name \notin {SpacedLabel, IntLabel}
                     /\ \A c \in DOMAIN dataset.cols : \A i, j \in 1..dataset.nrows :
                            dataset.cols[c].cells[i].k = dataset.cols[c].cells[j].k
        IN  page.verdicts = IF clean THEN <<NoIssuesDetected>> ELSE <<IssuesDetected>>

\* the verdict is right for every dataset whose column labels are all str
PrecheckVerdictForStrLabels ==
    (page.script = "dataset_precheck_workflow"
        /\ \A c \in DOMAIN page.dataset.cols : page.dataset.cols[c].name # IntLabel)
    => C12_PrecheckVerdict

\* C13: after "Fill with Mean/Average" the dataset holds no blank cell
C13_NoBlankAfterMean ==
    page.script = "fill_with_mean" => blank_cells(page.dataset) = 0

\* C14: after "Trim Whitespaces" no cell of any column has leading or trailing
\* whitespace
C14_NoWhitespaceAfterTrim ==
    page.script = "trim_whitespaces" =>
        /\ whitespace_issues(page.dataset) = 0
        /\ \A c \in DOMAIN page.dataset.cols : \A i \in 1..page.dataset.nrows :
               LET cell == page.dataset.cols[c].cells[i]
               IN  cell.k = "str" /\ cell.v # SpText

C14_Witness ==
    /\ page.script = "trim_whitespaces"
    /\ whitespace_issues(page.before) >= 2
    /\ blank_cells(page.before) >= 1
    /\ page.dataset # page.before

\* C15: removing duplicates leaves no duplicate row, lowers the row count by
\* the number of duplicate rows there were, and reports that number
C15_DuplicatesRemoved ==
    page.message.text = "Removed duplicate rows" =>
        /\ repeated_rows(page.dataset) = 0
        /\ page.dataset.nrows = page.before.nrows - repeated_rows(page.before)
        /\ page.message.count = page.before.nrows - page.dataset.nrows
        /\ repeated_rows(page.before) >= 1 => page.dataset.nrows < page.before.nrows

C15_Witness ==
    /\ page.script = "data_cleaning_workflow"
    /\ page.message.count = 2
    /\ page.dataset.nrows = 1
    /\ Len(page.dataset.cols) = 2

\* the recommendations ticked in the first Smart Clean, in the order apply_fixes
\* was handed them
first_selected == selected_recs(generate_ai_recommendations(first_run.dataset), first_run.selected)

\* apply_fixes has returned from a call whose selection held a recommendation
\* of that action
applied(action) ==
    /\ first_run.ran
    /\ ~first_run.raised
    /\ \E k \in DOMAIN first_selected : first_selected[k].action = action

\* apply_fixes has returned from a call whose selection was one recommendation
\* of that action and nothing else
applied_alone(action) ==
    applied(action) /\ Len(first_selected) = 1

\* C21: when the Duplicate Rows recommendation is among the selected fixes,
\* the dataset apply_fixes returns holds no repeated row, whatever else is
\* selected with it
C21_NoDuplicateRowReturned ==
    applied("remove_duplicates") => repeated_rows(first_run.df) = 0

\* when the Duplicate Rows recommendation is the only selected fix, the
\* returned dataset holds no repeated row
NoDuplicateRowWhenAlone ==
    applied_alone("remove_duplicates") => repeated_rows(first_run.df) = 0

\* the column of the returned dataset that a recommendation names; a dataset
\* that lost the column has none
returned_column(rec) ==
    LET c == col_index(first_run.df, rec.params.column)
    IN  IF c = 0 THEN {} ELSE { first_run.df.cols[c] }

\* the column of the dataset handed to apply_fixes that a recommendation names
original_column(rec) ==
    first_run.dataset.cols[col_index(first_run.dataset, rec.params.column)]

\* C22: when a fill_missing recommendation is the only fix applied, its column
\* has no missing cell in the returned dataset, for the mean and for the mode
\* strategy, a column whose cells are all missing included
C22_FillLeavesNoMissing ==
    applied_alone("fill_missing") =>
        \A col \in returned_column(first_selected[1]) : missing_cells(DataFrame(first_run.df.nrows, <<col>>)) = 0

\* the same for a column that had at least one cell that was not missing
FillLeavesNoMissingWhenSomePresent ==
    (/\ applied_alone("fill_missing")
     /\ \E i \in 1..first_run.dataset.nrows : ~isnull(original_column(first_selected[1]).cells[i]))
    => \A col \in returned_column(first_selected[1]) :
           missing_cells(DataFrame(first_run.df.nrows, <<col>>)) = 0

\* the same for the mode strategy alone
ModeFillLeavesNoMissing ==
    (applied_alone("fill_missing") /\ first_selected[1].params.strategy = "mode")
    => \A col \in returned_column(first_selected[1]) :
           missing_cells(DataFrame(first_run.df.nrows, <<col>>)) = 0

\* what stripping the edge whitespace of a cell leaves: a text cell without it,
\* any other cell as it was
stripped_cell(v) == IF v.k = "str" THEN Str(strip(v.v)) ELSE v

\* the dataset with the edge whitespace of the text cells of one column removed
\* and nothing else changed
only_stripped(dataset, name) ==
    [dataset EXCEPT !.cols =
        [c \in DOMAIN dataset.cols |->
            IF dataset.cols[c].name = name
            THEN [dataset.cols[c] EXCEPT !.cells =
                     [i \in DOMAIN dataset.cols[c].cells |-> stripped_cell(dataset.cols[c].cells[i])]]
            ELSE dataset.cols[c]]]

\* C23: the clean_whitespace fix on a column only removes the leading and
\* trailing whitespace of that column's text cells: its missing cells stay
\* missing, the row count and every other column are unchanged
C23_OnlyWhitespaceRemoved ==
    applied_alone("clean_whitespace") =>
        first_run.df = only_stripped(first_run.dataset, first_selected[1].params.column)

\* the row count and every other column are unchanged, and the text cells of
\* the column are stripped
WhitespaceFixFrame ==
    applied_alone("clean_whitespace") =>
        LET name == first_selected[1].params.column
            before == first_run.dataset
            after == first_run.df
        IN  /\ after.nrows = before.nrows
            /\ Len(after.cols) = Len(before.cols)
            /\ \A c \in DOMAIN before.cols :
                   IF before.cols[c].name # name THEN after.cols[c] = before.cols[c]
                   ELSE \A i \in 1..before.nrows :
                            before.cols[c].cells[i].k = "str"
                                => after.cols[c].cells[i] = stripped_cell(before.cols[c].cells[i])

\* the Date Format recommendations generate_ai_recommendations makes for a dataset
date_format_columns(dataset) ==
    LET recs == generate_ai_recommendations(dataset)
    IN  { recs[k].params.column : k \in { j \in DOMAIN recs : recs[j].action = "standardize_dates" } }

\* C24: after apply_fixes has applied a Date Format recommendation to a column,
\* generate_ai_recommendations on the returned dataset makes no Date Format
\* recommendation for that column
C24_DateFixSettlesIssue ==
    applied("standardize_dates") =>
        \A k \in DOMAIN first_selected :
            first_selected[k].action = "standardize_dates"
                => first_selected[k].params.column \notin date_format_columns(first_run.df)

\* applied on its own, the fix never settles the issue: the recommendation is
\* made again for its column
DateFixNeverSettlesIssue ==
    applied_alone("standardize_dates") =>
        first_selected[1].params.column \in date_format_columns(first_run.df)

====
